---- MODULE Spec2Model ----
(***************************************************************************)
(* Model of PytorchWildlife/models/classification/resnet_base/             *)
(* base_classifier.py: PlainResNetClassifier and PlainResNetInference.     *)
(* Objects are records, methods are operators on records, and every        *)
(* public operation is one action (the batch loop is unrolled into one     *)
(* step per batch).                                                        *)
(***************************************************************************)
EXTENDS Integers, Sequences, FiniteSets, TLC

VARIABLES net, inf, io, call, err, ret, pc,
          dataset, batches, total_logits, total_paths, fwd_calls, rg_calls

vars == <<net, inf, io, call, err, ret, pc,
          dataset, batches, total_logits, total_paths, fwd_calls, rg_calls>>

(* ---------------------------- bounds ----------------------------------- *)
\* largest dataset handed to batch_image_classification
MaxN == 65
\* number of distinct image contents
ImgKinds == 3

(* ------------------------- values and inputs --------------------------- *)
\* Python None for string-valued arguments / attributes
None == "None"
\* An attribute that was never assigned (reading it raises AttributeError)
Undefined == "<undefined>"
\* Python None for object-valued attributes; <<x>> is the object x
NoObject == <<>>

Truthy(x) == x \notin {None, ""}

NoErr == [kind |-> "None", msg |-> ""]
Raise(kind, msg) == [kind |-> kind, msg |-> msg]

NumClsSet == {1, 36}
NumLayersSet == {18, 34, 50}
WeightsSet == {None, "", "w.pth"}
UrlSet == {None, "", "http://u"}
TransformSet == {None, "custom"}
DeviceSet == {"cpu", "cuda"}
CkptKinds == {"exact", "missing", "unexpected"}
DataPathSet == {None, "", "dir"}
DetResultsSet == {None, "dets"}
IdStripSet == {None}

(* ---------------------- PlainResNetClassifier -------------------------- *)
\* torchvision block.expansion
Expansion(block) == IF block = "BasicBlock" THEN 1 ELSE 4

ResNetBackbone(block, layers) == [block |-> block, layers |-> layers]

Linear(in_features, out_features) ==
    [in_features |-> in_features, out_features |-> out_features]

\* Faulty variant: an unsupported layer count silently falls back to ResNet50
setup_net_fallback(self) ==
    LET block == IF self.num_layers = 18 THEN "BasicBlock" ELSE "Bottleneck"
        layers == IF self.num_layers = 18 THEN <<2, 2, 2, 2>> ELSE <<3, 4, 6, 3>>
    IN [self |-> [self EXCEPT
                    !.feature = <<ResNetBackbone(block, layers)>>,
                    !.classifier = <<Linear(512 * Expansion(block), self.num_cls)>>],
        err |-> NoErr]

\* Faulty variant: the head ignores the block expansion
setup_net_no_expansion(self) ==
    IF self.num_layers \notin {18, 50}
    THEN [self |-> self, err |-> Raise("Exception", "ResNet Type not supported.")]
    ELSE LET block == IF self.num_layers = 18 THEN "BasicBlock" ELSE "Bottleneck"
             layers == IF self.num_layers = 18 THEN <<2, 2, 2, 2>> ELSE <<3, 4, 6, 3>>
         IN [self |-> [self EXCEPT
                         !.feature = <<ResNetBackbone(block, layers)>>,
                         !.classifier = <<Linear(512, self.num_cls)>>],
             err |-> NoErr]

\* PlainResNetClassifier.setup_net: the updated object and the error raised
setup_net(self) ==
    IF self.num_layers \notin {18, 50}
    THEN [self |-> self, err |-> Raise("Exception", "ResNet Type not supported.")]
    ELSE LET block == IF self.num_layers = 18 THEN "BasicBlock" ELSE "Bottleneck"
             layers == IF self.num_layers = 18 THEN <<2, 2, 2, 2>> ELSE <<3, 4, 6, 3>>
         IN [self |-> [self EXCEPT
                         !.feature = <<ResNetBackbone(block, layers)>>,
                         !.classifier = <<Linear(512 * Expansion(block), self.num_cls)>>],
             err |-> NoErr]

\* PlainResNetClassifier.__init__
PlainResNetClassifier(num_cls, num_layers) ==
    setup_net([num_cls |-> num_cls,
               num_layers |-> num_layers,
               feature |-> NoObject,
               classifier |-> NoObject,
               criterion_cls |-> None,
               pretrained_weights |-> Undefined])

\* PlainResNetClassifier.setup_criteria
setup_criteria(self) == [self EXCEPT !.criterion_cls = "CrossEntropyLoss"]

\* A state-dict key is a sequence of name components; feat_init's two
\* str.replace calls delete the components "module." and "feature."
Remove(k, t) == SelectSeq(k, LAMBDA c : c # t)
StripKey(k) == Remove(Remove(k, "module."), "feature.")

\* keys of self.feature.state_dict()
FeatureKeys(feature) ==
    {<<"conv1.weight">>, <<"fc.weight">>}
      \cup (IF feature.block = "Bottleneck" THEN {<<"layer1.0.conv3.weight">>} ELSE {})

\* PlainResNetClassifier.feat_init
feat_init(self) ==
    IF self.pretrained_weights = Undefined
    THEN [self |-> self, err |-> Raise("AttributeError", "pretrained_weights"),
          missing_keys |-> {}, unused_keys |-> {}]
    ELSE LET init_weights == {StripKey(k) : k \in self.pretrained_weights}
             self_keys == FeatureKeys(self.feature[1])
         IN [self |-> self, err |-> NoErr,
             missing_keys |-> self_keys \ init_weights,
             unused_keys |-> init_weights \ self_keys]

(* ----------------------- PlainResNetInference -------------------------- *)
\* keys of PlainResNetInference.state_dict() once self.net is assigned
StateDictKeys(n) ==
    {"net.feature.conv1.weight", "net.feature.fc.weight",
     "net.classifier.weight", "net.classifier.bias"}
      \cup (IF n.feature[1].block = "Bottleneck"
            THEN {"net.feature.layer1.0.conv3.weight"} ELSE {})

\* what a checkpoint of the given kind holds under "state_dict"
Checkpoint(kind, n) ==
    CASE kind = "exact" -> StateDictKeys(n)
      [] kind = "missing" -> StateDictKeys(n) \ {"net.classifier.bias"}
      [] kind = "unexpected" -> StateDictKeys(n) \cup {"module.extra"}

\* Faulty variant: the url is consulted before the local weights file
load_weights_url_first(n, weights, url, fileCkpt, urlCkpt) ==
    IF Truthy(url)
    THEN [state_dict |-> Checkpoint(urlCkpt, n),
          io |-> <<"load_state_dict_from_url">>, err |-> NoErr]
    ELSE IF Truthy(weights)
    THEN [state_dict |-> Checkpoint(fileCkpt, n),
          io |-> <<"torch.load">>, err |-> NoErr]
    ELSE [state_dict |-> {}, io |-> <<>>,
          err |-> Raise("Exception", "Need weights for inference.")]

\* Faulty variant: with no weights and no url a default url is fetched
load_weights_default(n, weights, url, fileCkpt, urlCkpt) ==
    IF Truthy(weights)
    THEN [state_dict |-> Checkpoint(fileCkpt, n),
          io |-> <<"torch.load">>, err |-> NoErr]
    ELSE [state_dict |-> Checkpoint(urlCkpt, n),
          io |-> <<"load_state_dict_from_url">>, err |-> NoErr]

\* PlainResNetInference.__init__, the choice of clf_weights
load_weights(n, weights, url, fileCkpt, urlCkpt) ==
    IF Truthy(weights)
    THEN [state_dict |-> Checkpoint(fileCkpt, n),
          io |-> <<"torch.load">>, err |-> NoErr]
    ELSE IF Truthy(url)
    THEN [state_dict |-> Checkpoint(urlCkpt, n),
          io |-> <<"load_state_dict_from_url">>, err |-> NoErr]
    ELSE [state_dict |-> {}, io |-> <<>>,
          err |-> Raise("Exception", "Need weights for inference.")]

\* nn.Module.load_state_dict(sd, strict): the error it raises
load_state_dict(own_keys, sd, strict) ==
    IF strict /\ sd # own_keys
    THEN Raise("RuntimeError", "Error(s) in loading state_dict")
    ELSE NoErr

\* the module right after BaseClassifierInference.__init__ (an nn.Module)
NewInference ==
    [device |-> Undefined, net |-> FALSE, state_dict |-> {}, training |-> TRUE,
     net_device |-> Undefined, transform |-> Undefined, IMAGE_SIZE |-> None]

\* PlainResNetInference.__init__: the classifier object built, the module,
\* the external effects in order, and the error raised
PlainResNetInference(num_cls, num_layers, weights, device, url, transform, fileCkpt, urlCkpt) ==
    LET s0 == [NewInference EXCEPT !.device = device]
        c == PlainResNetClassifier(num_cls, num_layers)
    IN IF c.err # NoErr
       THEN [net |-> c.self, inf |-> s0, io |-> <<>>, err |-> c.err]
       ELSE
       LET s1 == [s0 EXCEPT !.net = TRUE]
           w == load_weights(c.self, weights, url, fileCkpt, urlCkpt)
       IN IF w.err # NoErr
          THEN [net |-> c.self, inf |-> s1, io |-> w.io, err |-> w.err]
          ELSE
          LET l == load_state_dict(StateDictKeys(c.self), w.state_dict, TRUE)
              io1 == w.io \o <<"load_state_dict">>
          IN IF l # NoErr
             THEN [net |-> c.self, inf |-> s1, io |-> io1, err |-> l]
             ELSE [net |-> c.self,
                   inf |-> [s1 EXCEPT
                              !.state_dict = w.state_dict,
                              !.training = FALSE,
                              !.net_device = device,
                              !.transform =
                                  IF Truthy(transform) THEN transform
                                  ELSE "Classification_Inference_Transform"],
                   io |-> io1 \o <<"eval", "to">>,
                   err |-> NoErr]

\* PlainResNetInference.results_generation: the body is `pass`
results_generation(logits, img_ids, id_strip) == NoObject

\* the logits row the network computes for one transformed image
LogitRow(n, img) == <<n.feature[1].block, n.classifier[1].out_features, img>>

\* PlainResNetInference.forward on a batch of images
forward(n, imgs) == [j \in 1..Len(imgs) |-> LogitRow(n, imgs[j])]

\* subscripting the value results_generation returned with [0]
Subscript0(r) ==
    IF r = NoObject
    THEN [value |-> NoObject,
          err |-> Raise("TypeError", "'NoneType' object is not subscriptable")]
    ELSE IF r[1] = <<>>
    THEN [value |-> NoObject, err |-> Raise("IndexError", "list index out of range")]
    ELSE [value |-> <<r[1][1]>>, err |-> NoErr]

(* ------------------------ datasets and batching ------------------------ *)
\* pw_data.ImageFolder over a folder of n files: one item per file
ImageFolder(transform, n) ==
    [i \in 1..n |-> [img |-> <<transform, i % ImgKinds>>, path |-> i]]

\* pw_data.DetectionCrops over n detections: crops of one image share its path
DetectionCrops(transform, n) ==
    [i \in 1..n |-> [img |-> <<transform, (i + 1) % ImgKinds>>,
                     path |-> (i + 1) \div 2]]

\* Faulty variant: an empty dataset is rejected with an error of its own
select_dataset_reject_empty(data_path, det_results, transform, n) ==
    IF ~Truthy(data_path) /\ ~Truthy(det_results)
    THEN [dataset |-> <<>>, err |-> Raise("Exception", "Need data for inference.")]
    ELSE IF n = 0
    THEN [dataset |-> <<>>, err |-> Raise("Exception", "No images found.")]
    ELSE IF Truthy(data_path)
    THEN [dataset |-> ImageFolder(transform, n), err |-> NoErr]
    ELSE [dataset |-> DetectionCrops(transform, n), err |-> NoErr]

\* batch_image_classification, the choice of dataset
select_dataset(data_path, det_results, transform, n) ==
    IF Truthy(data_path)
    THEN [dataset |-> ImageFolder(transform, n), err |-> NoErr]
    ELSE IF Truthy(det_results)
    THEN [dataset |-> DetectionCrops(transform, n), err |-> NoErr]
    ELSE [dataset |-> <<>>, err |-> Raise("Exception", "Need data for inference.")]

BatchSize == 32

\* dataset sizes tried: empty, around every multiple of the batch size, largest
DatasetSizes ==
    {n \in 0..MaxN : n % BatchSize \in {0, 1, BatchSize - 1}} \cup {MaxN}

Min(a, b) == IF a < b THEN a ELSE b

\* one collated batch: the images and the paths of items lo..hi
Collate(ds, lo, hi) ==
    [imgs |-> [j \in 1..(hi - lo + 1) |-> ds[lo + j - 1].img],
     paths |-> [j \in 1..(hi - lo + 1) |-> ds[lo + j - 1].path]]

\* Faulty variant: the trailing partial batch is dropped
DataLoader_drop_last(ds, batch_size, drop_last) ==
    [b \in 1..(Len(ds) \div batch_size) |->
        Collate(ds, (b - 1) * batch_size + 1, b * batch_size)]

\* torch DataLoader(dataset, batch_size, shuffle=False, drop_last): the
\* batches it yields, in order
DataLoader(ds, batch_size, drop_last) ==
    LET full == Len(ds) \div batch_size
        nb == IF drop_last \/ Len(ds) % batch_size = 0 THEN full ELSE full + 1
    IN [b \in 1..nb |->
          Collate(ds, (b - 1) * batch_size + 1, Min(b * batch_size, Len(ds)))]

\* torch.cat / np.concatenate along axis 0
RECURSIVE Cat(_)
Cat(parts) == IF parts = <<>> THEN <<>> ELSE Head(parts) \o Cat(Tail(parts))

(* ------------------------------ state ---------------------------------- *)
\* placeholder for "no classifier object yet"
NoNet ==
    [num_cls |-> 0, num_layers |-> 0, feature |-> NoObject, classifier |-> NoObject,
     criterion_cls |-> None, pretrained_weights |-> Undefined]

\* the locals of the operation in progress / last run
ClearLocals ==
    /\ dataset' = <<>>
    /\ batches' = <<>>
    /\ total_logits' = <<>>
    /\ total_paths' = <<>>
    /\ fwd_calls' = 0
    /\ rg_calls' = <<>>

Init ==
    /\ net = NoNet
    /\ inf = NewInference
    /\ io = <<>>
    /\ call = [op |-> "none"]
    /\ err = NoErr
    /\ ret = NoObject
    /\ pc = "init"
    /\ dataset = <<>>
    /\ batches = <<>>
    /\ total_logits = <<>>
    /\ total_paths = <<>>
    /\ fwd_calls = 0
    /\ rg_calls = <<>>

(* ----------------------------- actions --------------------------------- *)
\* PlainResNetClassifier(num_cls, num_layers)
ConstructClassifier ==
    /\ pc = "init"
    /\ \E num_cls \in NumClsSet, num_layers \in NumLayersSet :
         LET c == PlainResNetClassifier(num_cls, num_layers)
         IN /\ call' = [op |-> "PlainResNetClassifier",
                        num_cls |-> num_cls, num_layers |-> num_layers]
            /\ net' = c.self
            /\ err' = c.err
            /\ pc' = IF c.err = NoErr THEN "clf" ELSE "raised"
    /\ ret' = NoObject
    /\ ClearLocals
    /\ UNCHANGED <<inf, io>>

\* PlainResNetInference(num_cls, num_layers, weights, device, url, transform)
ConstructInference ==
    /\ pc = "init"
    /\ \E num_cls \in NumClsSet, num_layers \in NumLayersSet,
          weights \in WeightsSet, device \in DeviceSet, url \in UrlSet,
          transform \in TransformSet, fileCkpt \in CkptKinds, urlCkpt \in CkptKinds :
         LET r == PlainResNetInference(num_cls, num_layers, weights, device, url,
                                       transform, fileCkpt, urlCkpt)
         IN /\ call' = [op |-> "PlainResNetInference",
                        num_cls |-> num_cls, num_layers |-> num_layers,
                        weights |-> weights, device |-> device, url |-> url,
                        transform |-> transform,
                        fileCkpt |-> fileCkpt, urlCkpt |-> urlCkpt]
            /\ net' = r.net
            /\ inf' = r.inf
            /\ io' = r.io
            /\ err' = r.err
            /\ pc' = IF r.err = NoErr THEN "inf" ELSE "raised"
    /\ ret' = NoObject
    /\ ClearLocals

\* setup_net() called again on a constructed classifier (self.net of an
\* inference module included): backbone and head are rebuilt from scratch
SetupNet ==
    /\ pc \in {"clf", "inf"}
    /\ LET r == setup_net(net)
       IN /\ net' = r.self
          /\ err' = r.err
          /\ inf' = IF pc = "inf" /\ r.err = NoErr
                    THEN [inf EXCEPT !.state_dict = {}, !.net_device = "cpu"]
                    ELSE inf
    /\ call' = [op |-> "setup_net"]
    /\ ret' = NoObject
    /\ ClearLocals
    /\ UNCHANGED <<io, pc>>

\* setup_criteria()
SetupCriteria ==
    /\ pc \in {"clf", "inf"}
    /\ net' = setup_criteria(net)
    /\ call' = [op |-> "setup_criteria"]
    /\ err' = NoErr
    /\ ret' = NoObject
    /\ ClearLocals
    /\ UNCHANGED <<inf, io, pc>>

\* feat_init(); ret holds what it prints
FeatInit ==
    /\ pc \in {"clf", "inf"}
    /\ LET r == feat_init(net)
       IN /\ net' = r.self
          /\ err' = r.err
          /\ ret' = IF r.err = NoErr
                    THEN <<[missing_keys |-> r.missing_keys,
                            unused_keys |-> r.unused_keys]>>
                    ELSE NoObject
    /\ call' = [op |-> "feat_init"]
    /\ ClearLocals
    /\ UNCHANGED <<inf, io, pc>>

\* single_image_classification(img, img_id, id_strip)
SingleImageClassification ==
    /\ pc = "inf"
    /\ \E img_type \in {"str", "ndarray"}, content \in 0..(ImgKinds - 1),
          img_id \in {None, "a.jpg"}, id_strip \in IdStripSet :
         LET img == <<inf.transform, content>>
             logits == forward(net, <<img>>)
             r == results_generation(logits, <<img_id>>, id_strip)
             first == Subscript0(r)
         IN /\ call' = [op |-> "single_image_classification", img_type |-> img_type,
                        content |-> content, img_id |-> img_id, id_strip |-> id_strip]
            /\ fwd_calls' = 1
            /\ rg_calls' = <<[logits |-> logits, img_ids |-> <<img_id>>,
                              id_strip |-> id_strip, result |-> r]>>
            /\ err' = first.err
            /\ ret' = first.value
    /\ dataset' = <<>>
    /\ batches' = <<>>
    /\ total_logits' = <<>>
    /\ total_paths' = <<>>
    /\ UNCHANGED <<net, inf, io, pc>>

\* batch_image_classification(data_path, det_results, id_strip) up to the
\* creation of the DataLoader; n is the number of items the data source holds
BatchStart ==
    /\ pc = "inf"
    /\ \E data_path \in DataPathSet, det_results \in DetResultsSet,
          id_strip \in IdStripSet, n \in DatasetSizes :
         LET sel == select_dataset(data_path, det_results, inf.transform, n)
         IN /\ call' = [op |-> "batch_image_classification", data_path |-> data_path,
                        det_results |-> det_results, id_strip |-> id_strip]
            /\ err' = sel.err
            /\ dataset' = sel.dataset
            /\ batches' = IF sel.err = NoErr
                          THEN DataLoader(sel.dataset, BatchSize, FALSE) ELSE <<>>
            /\ pc' = IF sel.err = NoErr THEN "loop" ELSE "inf"
    /\ total_logits' = <<>>
    /\ total_paths' = <<>>
    /\ fwd_calls' = 0
    /\ rg_calls' = <<>>
    /\ ret' = NoObject
    /\ UNCHANGED <<net, inf, io>>

\* one iteration of `for batch in dataloader`
BatchStep ==
    /\ pc = "loop"
    /\ batches # <<>>
    /\ LET batch == Head(batches)
       IN /\ total_logits' = Append(total_logits, forward(net, batch.imgs))
          /\ total_paths' = Append(total_paths, batch.paths)
    /\ fwd_calls' = fwd_calls + 1
    /\ batches' = Tail(batches)
    /\ UNCHANGED <<net, inf, io, call, err, ret, pc, dataset, rg_calls>>

\* after the loop: concatenate and hand over to results_generation
BatchFinish ==
    /\ pc = "loop"
    /\ batches = <<>>
    /\ IF total_logits = <<>>
       THEN /\ err' = Raise("RuntimeError", "torch.cat(): expected a non-empty list of Tensors")
            /\ ret' = NoObject
            /\ UNCHANGED rg_calls
       ELSE LET logits == Cat(total_logits)
                paths == Cat(total_paths)
                r == results_generation(logits, paths, call.id_strip)
            IN /\ rg_calls' = Append(rg_calls,
                                     [logits |-> logits, img_ids |-> paths,
                                      id_strip |-> call.id_strip, result |-> r])
               /\ ret' = r
               /\ err' = NoErr
    /\ pc' = "inf"
    /\ UNCHANGED <<net, inf, io, call, dataset, batches, total_logits, total_paths,
                   fwd_calls>>

Next ==
    \/ ConstructClassifier
    \/ ConstructInference
    \/ SetupNet
    \/ SetupCriteria
    \/ FeatInit
    \/ SingleImageClassification
    \/ BatchStart
    \/ BatchStep
    \/ BatchFinish

Spec == Init /\ [][Next]_vars

(* ------------------------------ claims --------------------------------- *)
Range(f) == {f[i] : i \in DOMAIN f}

Constructors == {"PlainResNetClassifier", "PlainResNetInference"}

UnsupportedErr == Raise("Exception", "ResNet Type not supported.")
NeedWeightsErr == Raise("Exception", "Need weights for inference.")
NeedDataErr == Raise("Exception", "Need data for inference.")

\* C1: constructing either class with num_layers other than 18 or 50 raises
\* "ResNet Type not supported.", and then neither the backbone nor the head
\* has been built: feature and classifier are still None.
C1_UnsupportedLayers ==
    (call.op \in Constructors /\ call.num_layers \notin {18, 50})
      => /\ err = UnsupportedErr
         /\ pc = "raised"
         /\ net.feature = NoObject
         /\ net.classifier = NoObject

C1_Witness ==
    /\ call.op = "PlainResNetInference"
    /\ call.num_layers = 34
    /\ err = UnsupportedErr
    /\ net.num_layers = 34
    /\ net.feature = NoObject

\* C2: constructing PlainResNetInference with a supported num_layers and
\* neither weights nor url (None or empty) raises "Need weights for
\* inference."; no state dict was loaded, the module is still in training
\* mode (eval was not called) and transform was not assigned.
C2_NeedWeights ==
    (/\ call.op = "PlainResNetInference"
     /\ call.num_layers \in {18, 50}
     /\ ~Truthy(call.weights)
     /\ ~Truthy(call.url))
      => /\ err = NeedWeightsErr
         /\ pc = "raised"
         /\ io = <<>>
         /\ inf.state_dict = {}
         /\ inf.training
         /\ inf.transform = Undefined

C2_Witness ==
    /\ call.op = "PlainResNetInference"
    /\ call.num_layers = 50
    /\ call.weights = ""
    /\ call.url = None
    /\ call.transform = "custom"
    /\ err = NeedWeightsErr

\* C3 as stated: the only errors the module raises itself are "missing
\* weights" and "unsupported layer count".
C3_OnlyTwoRaises ==
    err.kind = "Exception" => err \in {UnsupportedErr, NeedWeightsErr}

\* C3 amended: the module raises exactly three errors itself: unsupported
\* layer count and missing weights (both only from construction), and
\* "Need data for inference." from batch_image_classification called with
\* neither data_path nor det_results.
C3_OnlyThreeRaises ==
    err.kind = "Exception" =>
      \/ /\ err = UnsupportedErr
         /\ call.op \in Constructors
         /\ call.num_layers \notin {18, 50}
      \/ /\ err = NeedWeightsErr
         /\ call.op = "PlainResNetInference"
         /\ ~Truthy(call.weights) /\ ~Truthy(call.url)
      \/ /\ err = NeedDataErr
         /\ call.op = "batch_image_classification"
         /\ ~Truthy(call.data_path) /\ ~Truthy(call.det_results)

C3_Witness ==
    /\ call.op = "batch_image_classification"
    /\ call.data_path = ""
    /\ call.det_results = None
    /\ err = NeedDataErr
    /\ pc = "inf"

\* C4: results_generation returns a list of dictionaries, so that
\* single_image_classification returns the first element of that list.
C4_SingleReturnsFirst ==
    call.op = "single_image_classification"
      => /\ err = NoErr
         /\ Len(rg_calls) = 1
         /\ rg_calls[1].result # NoObject
         /\ ret = <<rg_calls[1].result[1][1]>>

\* the number of batches a dataset of n items is cut into
NumBatches(n) == (n + BatchSize - 1) \div BatchSize

\* C5: for a dataset of N >= 1 items, the batches are taken in dataset
\* order, 32 at a time with the last partial batch kept, forward runs once
\* per batch, and results_generation is called exactly once, after the last
\* batch, with N logits and N paths, entry i of each belonging to item i.
C5_BatchOrder ==
    (call.op = "batch_image_classification" /\ Len(dataset) >= 1)
      => LET N == Len(dataset)
             done == Min(fwd_calls * BatchSize, N)
             logits == Cat(total_logits)
             paths == Cat(total_paths)
         IN /\ Len(total_logits) = fwd_calls
            /\ Len(total_paths) = fwd_calls
            /\ Len(logits) = done
            /\ Len(paths) = done
            /\ \A i \in 1..done :
                 /\ logits[i] = LogitRow(net, dataset[i].img)
                 /\ paths[i] = dataset[i].path
            /\ pc = "loop" => rg_calls = <<>>
            /\ pc = "loop" /\ batches = <<>> => done = N
            /\ pc # "loop" =>
                 /\ err = NoErr
                 /\ fwd_calls = NumBatches(N)
                 /\ done = N
                 /\ Len(rg_calls) = 1
                 /\ rg_calls[1].logits = logits
                 /\ rg_calls[1].img_ids = paths

C5_Witness ==
    /\ call.op = "batch_image_classification"
    /\ pc = "inf"
    /\ Len(dataset) > 2 * BatchSize
    /\ Len(dataset) % BatchSize # 0
    /\ fwd_calls = 3
    /\ Len(rg_calls) = 1
    /\ Len(rg_calls[1].img_ids) = Len(dataset)

\* what setup_net must have built for a layer count
C6_Built ==
    /\ net.num_layers = 18 =>
         /\ net.feature = <<[block |-> "BasicBlock", layers |-> <<2, 2, 2, 2>>]>>
         /\ net.classifier = <<[in_features |-> 512, out_features |-> net.num_cls]>>
    /\ net.num_layers = 50 =>
         /\ net.feature = <<[block |-> "Bottleneck", layers |-> <<3, 4, 6, 3>>]>>
         /\ net.classifier = <<[in_features |-> 2048, out_features |-> net.num_cls]>>

C6_State ==
    /\ pc \in {"clf", "inf", "loop"} =>
         /\ net.num_layers \in {18, 50}
         /\ net.feature # NoObject
         /\ net.classifier # NoObject
         /\ C6_Built
    /\ (call.op \in Constructors /\ err = NoErr) =>
         /\ net.num_cls = call.num_cls
         /\ net.num_layers = call.num_layers
         /\ net.criterion_cls = None

C6_Step ==
    net'.criterion_cls # net.criterion_cls =>
       /\ call'.op = "setup_criteria"
       /\ net'.criterion_cls = "CrossEntropyLoss"

\* C6: 18 layers give BasicBlock, stages [2, 2, 2, 2] and a 512-input head;
\* 50 layers give Bottleneck, stages [3, 4, 6, 3] and a 2048-input head; the
\* head has num_cls outputs; after construction feature and classifier are
\* set and criterion_cls is None until setup_criteria is called.
C6_SetupNet == []C6_State /\ [][C6_Step]_vars

C6_Witness ==
    /\ call.op = "PlainResNetClassifier"
    /\ pc = "clf"
    /\ net.num_layers = 50
    /\ net.num_cls = 36
    /\ net.classifier = <<[in_features |-> 2048, out_features |-> 36]>>
    /\ net.criterion_cls = None

\* C7: feat_init on a successfully constructed classifier completes without
\* error and reports the missing and the unused keys.
C7_FeatInitCompletes ==
    call.op = "feat_init" => (err = NoErr /\ ret # NoObject)

\* the checkpoint kind of the source the constructor call names first
C8_UsedCkpt == IF Truthy(call.weights) THEN call.fileCkpt ELSE call.urlCkpt

C8_UsedRead ==
    IF Truthy(call.weights) THEN "torch.load" ELSE "load_state_dict_from_url"

\* C8: the constructor reads exactly one weight source, the local file when
\* weights is given (the url is then never fetched) and the url only when
\* weights is absent; its "state_dict" is loaded strictly, so a missing or
\* an unexpected key fails construction, and only after a successful load
\* is the module put in eval mode and moved to the device.
C8_WeightSource ==
    (/\ call.op = "PlainResNetInference"
     /\ call.num_layers \in {18, 50}
     /\ Truthy(call.weights) \/ Truthy(call.url))
      => /\ Len(io) >= 2
         /\ io[1] = C8_UsedRead
         /\ io[2] = "load_state_dict"
         /\ \A i \in 2..Len(io) : io[i] \notin {"torch.load", "load_state_dict_from_url"}
         /\ C8_UsedCkpt # "exact" =>
              /\ err.kind = "RuntimeError"
              /\ pc = "raised"
              /\ io = <<C8_UsedRead, "load_state_dict">>
              /\ inf.training
              /\ inf.net_device = Undefined
         /\ C8_UsedCkpt = "exact" =>
              /\ err = NoErr
              /\ io = <<C8_UsedRead, "load_state_dict", "eval", "to">>
              /\ inf.state_dict = StateDictKeys(net)
              /\ ~inf.training
              /\ inf.net_device = call.device

C8_Witness ==
    /\ call.op = "PlainResNetInference"
    /\ Truthy(call.weights)
    /\ Truthy(call.url)
    /\ call.fileCkpt = "exact"
    /\ call.urlCkpt = "missing"
    /\ io = <<"torch.load", "load_state_dict", "eval", "to">>
    /\ pc = "inf"

====
